---- MODULE Spec2Model ----
(***************************************************************************)
(* Model of server.py: the two Flask routes /summarize and /read-aloud and *)
(* the retry helper fetch_gemini_api they both call.                       *)
(*                                                                         *)
(* Conventions of the model                                                *)
(*   - seconds are integers: the delays 1.0, 2.0, 4.0, 8.0 are exact       *)
(*     binary floats, so delay *= 2 is modelled as integer doubling;       *)
(*   - a body (inbound or upstream) is the raw text that is on the wire;   *)
(*     json_loads maps it to a tagged JSON value                           *)
(*         [t |-> "obj", f |-> key -> value]   a dict                      *)
(*         [t |-> "arr", e |-> <<values>>]     a list                      *)
(*         [t |-> "str", s |-> <<characters>>] a str                       *)
(*         [t |-> "null"]                      None                        *)
(*   - an exception is a record [type, msg, status, details];              *)
(*   - one loop iteration of fetch_gemini_api is one step of the model.    *)
(***************************************************************************)
EXTENDS Integers, Sequences, FiniteSets, TLC

VARIABLES
    requests_version,  \* the installed requests library: decides the class of a JSON decode failure
    clients,           \* the inbound requests of this run
    pc,                \* per request: "idle", "fetch" (inside the retry loop), "done"
    endpoint,          \* per request: the route that received it
    inbody,            \* per request: the raw inbound body
    payload,           \* per request: the outbound payload the handler built
    url,               \* per request: the URL handed to fetch_gemini_api
    i,                 \* per request: the loop variable of fetch_gemini_api
    delay,             \* per request: the local variable delay
    response,          \* per request: the local variable response (last upstream response)
    trace,             \* per request: the POSTs and sleeps performed, in order
    fetched,           \* per request: how fetch_gemini_api ended
    resp               \* per request: the HTTP response of the route

vars == <<requests_version, clients, pc, endpoint, inbody, payload, url, i,
          delay, response, trace, fetched, resp>>

----------------------------------------------------------------------------
(* Program constants                                                       *)

max_retries_six == 5 + 1

max_retries == 5

initial_delay == 1

GEMINI_SUMMARIZE_URL == "gemini-2.5-flash-preview-09-2025:generateContent"

GEMINI_TTS_URL == "gemini-2.5-flash-preview-tts:generateContent"

ReqIds == {1, 2}

Endpoints == {"/summarize", "/read-aloud"}

RequestsVersions == {"requests<2.27", "requests>=2.27"}

----------------------------------------------------------------------------
(* JSON values                                                             *)

Null == [t |-> "null"]

Str(chars) == [t |-> "str", s |-> chars]

Arr(elems) == [t |-> "arr", e |-> elems]

Obj(fields) == [t |-> "obj", f |-> fields]

EmptyObj == Obj(<<>>)

\* Python truthiness of a JSON value: None, "", [] and {} are falsy
Truthy(v) ==
    CASE v.t = "null" -> FALSE
      [] v.t = "str"  -> Len(v.s) > 0
      [] v.t = "arr"  -> Len(v.e) > 0
      [] v.t = "obj"  -> DOMAIN v.f # {}

\* str.startswith
StartsWith(s, prefix) ==
    /\ Len(s) >= Len(prefix)
    /\ SubSeq(s, 1, Len(prefix)) = prefix

\* a Python evaluation: either a value or a raised exception type
Ok(v) == [err |-> "", v |-> v]

Fail(e) == [err |-> e, v |-> Null]

\* x.get(key, default)
PyGet(r, key, default) ==
    IF r.err # "" THEN r
    ELSE IF r.v.t = "obj"
         THEN Ok(IF key \in DOMAIN r.v.f THEN r.v.f[key] ELSE default)
         ELSE Fail("AttributeError")

\* x[0]
PyIndex0(r) ==
    IF r.err # "" THEN r
    ELSE CASE r.v.t = "arr"  -> IF Len(r.v.e) = 0 THEN Fail("IndexError") ELSE Ok(r.v.e[1])
           [] r.v.t = "str"  -> IF Len(r.v.s) = 0 THEN Fail("IndexError") ELSE Ok(Str(<<r.v.s[1]>>))
           [] r.v.t = "obj"  -> Fail("KeyError")
           [] r.v.t = "null" -> Fail("TypeError")

----------------------------------------------------------------------------
(* Bodies on the wire                                                      *)

FOO == <<"f", "o", "o">>

QUJD == <<"Q", "U", "J", "D">>

AUDIO_L16 == <<"a", "u", "d", "i", "o", "/", "L", "1", "6">>

MIME_L16 == AUDIO_L16 \o <<";", "r", "a", "t", "e", "=", "2", "4", "0", "0", "0">>

MIME_MP3 == <<"a", "u", "d", "i", "o", "/", "m", "p", "3">>

\* inbound bodies (Content-Type: application/json)
InBodies ==
    { "",
      "null",
      "[]",
      "\"hi\"",
      "{}",
      "{\"summaryPrompt\":\"\"}",
      "{\"summaryPrompt\":\"foo\"}",
      "{\"textToSpeak\":\"\"}",
      "{\"textToSpeak\":\"foo\"}" }

\* upstream bodies
UpBodies ==
    { "",
      "<html>",
      "{\"error\":\"denied\"}",
      "{}",
      "{\"candidates\":[]}",
      "{\"candidates\":[{\"content\":{\"parts\":[]}}]}",
      "{\"candidates\":[{\"content\":{\"parts\":[{}]}}]}",
      "{\"candidates\":[{\"content\":{\"parts\":[{\"text\":\"\"}]}}]}",
      "{\"candidates\":[{\"content\":{\"parts\":[{\"text\":\"foo\"}]}}]}",
      "{\"candidates\":[{\"content\":{\"parts\":[{\"inlineData\":{\"data\":\"QUJD\",\"mimeType\":\"audio/L16;rate=24000\"}}]}}]}",
      "{\"candidates\":[{\"content\":{\"parts\":[{\"inlineData\":{\"data\":\"QUJD\",\"mimeType\":\"audio/mp3\"}}]}}]}" }

Candidate(part) ==
    Obj([candidates |-> Arr(<<Obj([content |-> Obj([parts |-> Arr(<<part>>)])])>>)])

InlineData(data, mime) ==
    Obj([inlineData |-> Obj([data |-> Str(data), mimeType |-> Str(mime)])])

\* the text is a JSON document
IsJson(b) == b \notin {"", "<html>"}

\* json.loads of a JSON document
json_loads(b) ==
    CASE b = "null" -> Null
      [] b = "[]" -> Arr(<<>>)
      [] b = "\"hi\"" -> Str(<<"h", "i">>)
      [] b = "{}" -> EmptyObj
      [] b = "{\"summaryPrompt\":\"\"}" -> Obj([summaryPrompt |-> Str(<<>>)])
      [] b = "{\"summaryPrompt\":\"foo\"}" -> Obj([summaryPrompt |-> Str(FOO)])
      [] b = "{\"textToSpeak\":\"\"}" -> Obj([textToSpeak |-> Str(<<>>)])
      [] b = "{\"textToSpeak\":\"foo\"}" -> Obj([textToSpeak |-> Str(FOO)])
      [] b = "{\"error\":\"denied\"}" ->
            Obj([error |-> Str(<<"d", "e", "n", "i", "e", "d">>)])
      [] b = "{\"candidates\":[]}" -> Obj([candidates |-> Arr(<<>>)])
      [] b = "{\"candidates\":[{\"content\":{\"parts\":[]}}]}" ->
            Obj([candidates |-> Arr(<<Obj([content |-> Obj([parts |-> Arr(<<>>)])])>>)])
      [] b = "{\"candidates\":[{\"content\":{\"parts\":[{}]}}]}" ->
            Candidate(EmptyObj)
      [] b = "{\"candidates\":[{\"content\":{\"parts\":[{\"text\":\"\"}]}}]}" ->
            Candidate(Obj([text |-> Str(<<>>)]))
      [] b = "{\"candidates\":[{\"content\":{\"parts\":[{\"text\":\"foo\"}]}}]}" ->
            Candidate(Obj([text |-> Str(FOO)]))
      [] b = "{\"candidates\":[{\"content\":{\"parts\":[{\"inlineData\":{\"data\":\"QUJD\",\"mimeType\":\"audio/L16;rate=24000\"}}]}}]}" ->
            Candidate(InlineData(QUJD, MIME_L16))
      [] b = "{\"candidates\":[{\"content\":{\"parts\":[{\"inlineData\":{\"data\":\"QUJD\",\"mimeType\":\"audio/mp3\"}}]}}]}" ->
            Candidate(InlineData(QUJD, MIME_MP3))

----------------------------------------------------------------------------
(* Exceptions                                                              *)

NoDetails == [text |-> "", parsed |-> ""]

NoExc == [type |-> "none", msg |-> "", status |-> 0, details |-> NoDetails]

Exc(type, msg) == [type |-> type, msg |-> msg, status |-> 0, details |-> NoDetails]

\* the class raised when a body is not a JSON document: requests 2.27 made
\* it requests.exceptions.JSONDecodeError, a RequestException; before, it
\* was a plain ValueError
JSONDecodeError ==
    IF requests_version = "requests>=2.27"
    THEN Exc("JSONDecodeError", "Expecting value")
    ELSE Exc("ValueError", "Expecting value")

\* isinstance(e, requests.exceptions.HTTPError)
IsHTTPError(e) == e.type = "HTTPError"

\* isinstance(e, requests.exceptions.RequestException)
IsRequestException(e) ==
    e.type \in {"HTTPError", "ConnectionError", "Timeout", "JSONDecodeError"}

----------------------------------------------------------------------------
(* The upstream                                                            *)

\* 300 stands for the 3xx answers requests hands back with their body (no
\* Location header to follow)
UpStatuses == {200, 300, 400, 403, 429, 500}

\* what one requests.post can produce: a response, or a transport failure
Outcomes ==
    [kind : {"http"}, status : UpStatuses, body : UpBodies]
        \cup [kind : {"ConnectionError", "Timeout"}, status : {0}, body : {""}]

NoResponse == [status |-> 0, body |-> ""]

----------------------------------------------------------------------------
(* fetch_gemini_api                                                        *)

\* response.raise_for_status(): raises HTTPError for 4xx and 5xx
raise_for_status(status) == 400 <= status /\ status < 600

RetryRateLimit_also403(status, n) == status \in {429, 403} /\ n < max_retries - 1

\* the retry condition of the HTTPError clause
RetryRateLimit(status, n) == status = 429 /\ n < max_retries - 1

RetryRequestException_every_attempt(n) == n < max_retries

RetryRequestException_one_less(n) == n < max_retries - 2

\* the retry condition of the RequestException clause
RetryRequestException(n) == n < max_retries - 1

\* the statuses reported as a credential problem
IsCredentialStatus(status) == status \in {400, 403}

NextDelay_linear(d) == d + 1

\* delay *= 2
NextDelay(d) == d * 2

\* time.sleep(delay); delay *= 2; continue
Continue(d) ==
    [next |-> "continue", body |-> "", exc |-> NoExc, slept |-> d, delay |-> NextDelay(d)]

RateLimitRetry_no_doubling(d) == [Continue(d) EXCEPT !.delay = d]

\* the retry of the HTTPError clause
RateLimitRetry(d) == Continue(d)

\* the retry of the RequestException clause
RequestExceptionRetry(d) == Continue(d)

Return(b, d) == [next |-> "return", body |-> b, exc |-> NoExc, slept |-> 0, delay |-> d]

Raise(e, d) == [next |-> "raise", body |-> "", exc |-> e, slept |-> 0, delay |-> d]

\* error_details = response.json() if response.text else "No error message provided."
error_details(rsp) ==
    IF rsp.body # ""
    THEN [text |-> "", parsed |-> rsp.body]
    ELSE [text |-> "No error message provided.", parsed |-> ""]

\* except requests.exceptions.HTTPError
HTTPErrorClause(n, d, rsp) ==
    IF RetryRateLimit(rsp.status, n) THEN RateLimitRetry(d)
    ELSE IF rsp.body # "" /\ ~IsJson(rsp.body) THEN Raise(JSONDecodeError, d)
    ELSE IF IsCredentialStatus(rsp.status)
         THEN Raise([type |-> "HTTPError",
                     msg |-> "API Key likely invalid or not configured correctly. Status {status}. Details: {details}",
                     status |-> rsp.status,
                     details |-> error_details(rsp)], d)
         ELSE Raise([type |-> "HTTPError",
                     msg |-> "API call failed with status {status}",
                     status |-> rsp.status,
                     details |-> NoDetails], d)

\* except requests.exceptions.RequestException
RequestExceptionClause(n, d, e) ==
    IF RetryRequestException(n) THEN RequestExceptionRetry(d) ELSE Raise(e, d)

\* the body of the for loop, for loop variable n, delay d and upstream
\* outcome out
Iteration(n, d, out) ==
    IF out.kind # "http"
    THEN RequestExceptionClause(n, d, Exc(out.kind, "transport failure"))
    ELSE IF raise_for_status(out.status)
         THEN HTTPErrorClause(n, d, [status |-> out.status, body |-> out.body])
         ELSE IF IsJson(out.body)
              THEN Return(out.body, d)
              ELSE IF IsRequestException(JSONDecodeError)
                   THEN RequestExceptionClause(n, d, JSONDecodeError)
                   ELSE Raise(JSONDecodeError, d)

NotFetched == [how |-> "none", body |-> "", exc |-> NoExc]

\* how the call ends after an iteration, "none" while the loop goes on;
\* a loop that runs out of iterations returns None
FetchEnd(n, it) ==
    CASE it.next = "return" -> [how |-> "return", body |-> it.body, exc |-> NoExc]
      [] it.next = "raise" -> [how |-> "raise", body |-> "", exc |-> it.exc]
      [] it.next = "continue" ->
            IF n + 1 < max_retries THEN NotFetched
            ELSE [how |-> "return", body |-> "null", exc |-> NoExc]

----------------------------------------------------------------------------
(* The routes                                                              *)

NoResp ==
    [code |-> 0, key |-> "", msg |-> "", exc |-> NoExc,
     summary |-> Null, audioData |-> Null, mimeType |-> Null]

ErrorResp(code, msg, e) ==
    [code |-> code, key |-> "error", msg |-> msg, exc |-> e,
     summary |-> Null, audioData |-> Null, mimeType |-> Null]

SummaryResp(text) ==
    [code |-> 200, key |-> "summary", msg |-> "", exc |-> NoExc,
     summary |-> text, audioData |-> Null, mimeType |-> Null]

AudioResp(data, mime) ==
    [code |-> 200, key |-> "audioData", msg |-> "", exc |-> NoExc,
     summary |-> Null, audioData |-> data, mimeType |-> mime]

FieldOf(ep) == IF ep = "/summarize" THEN "summaryPrompt" ELSE "textToSpeak"

UrlOf_always_summarize(ep) == GEMINI_SUMMARIZE_URL

UrlOf(ep) == IF ep = "/summarize" THEN GEMINI_SUMMARIZE_URL ELSE GEMINI_TTS_URL

MissingMsg(ep) ==
    IF ep = "/summarize" THEN "Missing summaryPrompt in request body"
    ELSE "Missing textToSpeak in request body"

ServerErrorMsg(ep) ==
    IF ep = "/summarize" THEN "Server Error during summarization: {e}"
    ELSE "Server Error during TTS generation: {e}"

ExceptClauses_http_only(ep, e) ==
    IF IsHTTPError(e) THEN ErrorResp(500, "API Request Failed: {e}", e)
    ELSE NoResp

\* the two except clauses of a route
ExceptClauses(ep, e) ==
    IF IsHTTPError(e) THEN ErrorResp(500, "API Request Failed: {e}", e)
    ELSE ErrorResp(500, ServerErrorMsg(ep), e)

\* request.get_json(): a body that is not a JSON document raises BadRequest
get_json(b) == IF IsJson(b) THEN Ok(json_loads(b)) ELSE Fail("BadRequest")

\* data.get('summaryPrompt') / data.get('textToSpeak')
InputField(ep, b) == PyGet(get_json(b), FieldOf(ep), Null)

NoPayload == [prefix |-> "", text |-> Null, system |-> FALSE, audio |-> FALSE]

BuildPayload(ep, text) ==
    IF ep = "/summarize"
    THEN [prefix |-> "", text |-> text, system |-> TRUE, audio |-> FALSE]
    ELSE [prefix |-> "Say in a clear, informative voice: ", text |-> text,
          system |-> FALSE, audio |-> TRUE]

\* the route up to the call of fetch_gemini_api: a response, or none when
\* the call is made
Validate(ep, b) ==
    LET field == InputField(ep, b)
    IN  IF field.err # "" THEN ExceptClauses(ep, Exc(field.err, "exception"))
        ELSE IF ~Truthy(field.v) THEN ErrorResp(400, MissingMsg(ep), NoExc)
        ELSE NoResp

\* api_response.get('candidates', [{}])[0].get('content', {}).get('parts', [{}])[0]
FirstPart(api_response) ==
    PyIndex0(PyGet(PyGet(PyIndex0(PyGet(Ok(api_response), "candidates",
                                        Arr(<<EmptyObj>>))),
                         "content", EmptyObj),
                   "parts", Arr(<<EmptyObj>>)))

summarize_extract_first_candidate(api_response) ==
    LET text_result == PyIndex0(PyGet(Ok(api_response), "candidates", Arr(<<EmptyObj>>)))
    IN  IF text_result.err # ""
        THEN ExceptClauses("/summarize", Exc(text_result.err, "exception"))
        ELSE IF Truthy(text_result.v) THEN SummaryResp(text_result.v)
        ELSE ErrorResp(500, "Failed to generate summary from the model.", NoExc)

\* summarize, after fetch_gemini_api returned api_response
summarize_extract(api_response) ==
    LET text_result == PyGet(FirstPart(api_response), "text", Null)
    IN  IF text_result.err # ""
        THEN ExceptClauses("/summarize", Exc(text_result.err, "exception"))
        ELSE IF Truthy(text_result.v) THEN SummaryResp(text_result.v)
        ELSE ErrorResp(500, "Failed to generate summary from the model.", NoExc)

\* read_aloud, after fetch_gemini_api returned api_response
read_aloud_extract(api_response) ==
    LET part == FirstPart(api_response)
        audio_data == PyGet(PyGet(part, "inlineData", EmptyObj), "data", Null)
        mime_type == PyGet(PyGet(part, "inlineData", EmptyObj), "mimeType", Null)
    IN  IF audio_data.err # ""
        THEN ExceptClauses("/read-aloud", Exc(audio_data.err, "exception"))
        ELSE IF mime_type.err # ""
        THEN ExceptClauses("/read-aloud", Exc(mime_type.err, "exception"))
        ELSE IF Truthy(audio_data.v) /\ Truthy(mime_type.v) /\ mime_type.v.t # "str"
        THEN ExceptClauses("/read-aloud", Exc("AttributeError", "exception"))
        ELSE IF /\ Truthy(audio_data.v) /\ Truthy(mime_type.v)
                /\ StartsWith(mime_type.v.s, AUDIO_L16)
        THEN AudioResp(audio_data.v, mime_type.v)
        ELSE ErrorResp(500, "Invalid audio data received from API or model failed to generate audio.", NoExc)

\* the route after fetch_gemini_api ended as f
Finish(ep, f) ==
    IF f.how = "raise" THEN ExceptClauses(ep, f.exc)
    ELSE IF ep = "/summarize" THEN summarize_extract(json_loads(f.body))
    ELSE read_aloud_extract(json_loads(f.body))

----------------------------------------------------------------------------
(* Actions                                                                 *)

PostEvent(r, out) ==
    [ev |-> "post", url |-> url[r], payload |-> payload[r],
     kind |-> out.kind, status |-> out.status, secs |-> 0]

SleepEvent(secs) ==
    [ev |-> "sleep", url |-> "", payload |-> NoPayload,
     kind |-> "", status |-> 0, secs |-> secs]

\* a route is entered with inbound body b; it answers at once or calls
\* fetch_gemini_api, whose locals are then initialised
Receive(r, ep, b) ==
    /\ r \in clients
    /\ pc[r] = "idle"
    /\ endpoint' = [endpoint EXCEPT ![r] = ep]
    /\ inbody' = [inbody EXCEPT ![r] = b]
    /\ LET early == Validate(ep, b)
       IN  IF early.code # 0
           THEN /\ resp' = [resp EXCEPT ![r] = early]
                /\ pc' = [pc EXCEPT ![r] = "done"]
                /\ UNCHANGED <<payload, url, i, delay>>
           ELSE /\ payload' = [payload EXCEPT ![r] = BuildPayload(ep, InputField(ep, b).v)]
                /\ url' = [url EXCEPT ![r] = UrlOf(ep)]
                /\ i' = [i EXCEPT ![r] = 0]
                /\ delay' = [delay EXCEPT ![r] = initial_delay]
                /\ pc' = [pc EXCEPT ![r] = "fetch"]
                /\ UNCHANGED resp
    /\ UNCHANGED <<requests_version, clients, response, trace, fetched>>

Attempt_shared_delay(r, out) ==
    /\ r \in clients
    /\ pc[r] = "fetch"
    /\ LET it == Iteration(i[r], delay[r], out)
           end == FetchEnd(i[r], it)
       IN  /\ response' = [response EXCEPT ![r] =
                  IF out.kind = "http" THEN [status |-> out.status, body |-> out.body]
                  ELSE @]
           /\ trace' = [trace EXCEPT ![r] =
                  IF it.next = "continue"
                  THEN @ \o <<PostEvent(r, out), SleepEvent(it.slept)>>
                  ELSE Append(@, PostEvent(r, out))]
           /\ delay' = [q \in ReqIds |-> it.delay]
           /\ i' = [i EXCEPT ![r] = IF it.next = "continue" THEN @ + 1 ELSE @]
           /\ fetched' = [fetched EXCEPT ![r] = end]
           /\ IF end.how = "none"
              THEN UNCHANGED <<pc, resp>>
              ELSE /\ pc' = [pc EXCEPT ![r] = "done"]
                   /\ resp' = [resp EXCEPT ![r] = Finish(endpoint[r], end)]
    /\ UNCHANGED <<requests_version, clients, endpoint, inbody, payload, url>>

\* one iteration of the retry loop: the POST, its classification, and
\* either the sleep before the next iteration or the end of the call, in
\* which case the route runs to its response
Attempt(r, out) ==
    /\ r \in clients
    /\ pc[r] = "fetch"
    /\ LET it == Iteration(i[r], delay[r], out)
           end == FetchEnd(i[r], it)
       IN  /\ response' = [response EXCEPT ![r] =
                  IF out.kind = "http" THEN [status |-> out.status, body |-> out.body]
                  ELSE @]
           /\ trace' = [trace EXCEPT ![r] =
                  IF it.next = "continue"
                  THEN @ \o <<PostEvent(r, out), SleepEvent(it.slept)>>
                  ELSE Append(@, PostEvent(r, out))]
           /\ delay' = [delay EXCEPT ![r] = it.delay]
           /\ i' = [i EXCEPT ![r] = IF it.next = "continue" THEN @ + 1 ELSE @]
           /\ fetched' = [fetched EXCEPT ![r] = end]
           /\ IF end.how = "none"
              THEN UNCHANGED <<pc, resp>>
              ELSE /\ pc' = [pc EXCEPT ![r] = "done"]
                   /\ resp' = [resp EXCEPT ![r] = Finish(endpoint[r], end)]
    /\ UNCHANGED <<requests_version, clients, endpoint, inbody, payload, url>>

Init ==
    /\ requests_version \in RequestsVersions
    /\ clients = {1}
    /\ pc = [r \in ReqIds |-> "idle"]
    /\ endpoint = [r \in ReqIds |-> "/summarize"]
    /\ inbody = [r \in ReqIds |-> ""]
    /\ payload = [r \in ReqIds |-> NoPayload]
    /\ url = [r \in ReqIds |-> ""]
    /\ i = [r \in ReqIds |-> 0]
    /\ delay = [r \in ReqIds |-> initial_delay]
    /\ response = [r \in ReqIds |-> NoResponse]
    /\ trace = [r \in ReqIds |-> <<>>]
    /\ fetched = [r \in ReqIds |-> NotFetched]
    /\ resp = [r \in ReqIds |-> NoResp]

Next ==
    \/ \E r \in ReqIds, ep \in Endpoints, b \in InBodies : Receive(r, ep, b)
    \/ \E r \in ReqIds, out \in Outcomes : Attempt(r, out)

Spec == Init /\ [][Next]_vars

\* two requests handled at once, over a smaller upstream
ConcInBodies ==
    {"{}", "{\"summaryPrompt\":\"foo\"}", "{\"textToSpeak\":\"foo\"}"}

ConcOutcomes ==
    { [kind |-> "http", status |-> 429, body |-> ""],
      [kind |-> "http", status |-> 403, body |-> "{\"error\":\"denied\"}"],
      [kind |-> "http", status |-> 200,
       body |-> "{\"candidates\":[{\"content\":{\"parts\":[{\"text\":\"foo\"}]}}]}"],
      [kind |-> "ConnectionError", status |-> 0, body |-> ""] }

InitConc ==
    /\ requests_version \in RequestsVersions
    /\ clients = ReqIds
    /\ pc = [r \in ReqIds |-> "idle"]
    /\ endpoint = [r \in ReqIds |-> "/summarize"]
    /\ inbody = [r \in ReqIds |-> ""]
    /\ payload = [r \in ReqIds |-> NoPayload]
    /\ url = [r \in ReqIds |-> ""]
    /\ i = [r \in ReqIds |-> 0]
    /\ delay = [r \in ReqIds |-> initial_delay]
    /\ response = [r \in ReqIds |-> NoResponse]
    /\ trace = [r \in ReqIds |-> <<>>]
    /\ fetched = [r \in ReqIds |-> NotFetched]
    /\ resp = [r \in ReqIds |-> NoResp]

NextConc ==
    \/ \E r \in ReqIds, ep \in Endpoints, b \in ConcInBodies : Receive(r, ep, b)
    \/ \E r \in ReqIds, out \in ConcOutcomes : Attempt(r, out)

SpecConc == InitConc /\ [][NextConc]_vars

----------------------------------------------------------------------------
(* Reading the trace of a request                                          *)

IsPost(e) == e.ev = "post"

IsSleep(e) == e.ev = "sleep"

PostsOf(r) == SelectSeq(trace[r], IsPost)

SleepsOf(r) == SelectSeq(trace[r], IsSleep)

NumPosts(r) == Len(PostsOf(r))

NumSleeps(r) == Len(SleepsOf(r))

\* the statuses of the POSTs, in order (0 for a transport failure)
StatusesOf(r) == [k \in 1..NumPosts(r) |-> PostsOf(r)[k].status]

\* the kinds of the POSTs, in order
KindsOf(r) == [k \in 1..NumPosts(r) |-> PostsOf(r)[k].kind]

\* the seconds slept, in order
SecsOf(r) == [k \in 1..NumSleeps(r) |-> SleepsOf(r)[k].secs]

\* the number of POSTs among the first k events
PostsUpTo(r, k) == Len(SelectSeq(SubSeq(trace[r], 1, k), IsPost))

LastEvent(r) == trace[r][Len(trace[r])]

Is2xx(status) == 200 <= status /\ status < 300

IsTransport(e) == IsPost(e) /\ e.kind \in {"ConnectionError", "Timeout"}

\* the failure raised for an exhausted rate limit: the HTTPError of a 429
IsRateLimitFailure(e) == IsHTTPError(e) /\ e.status = 429

\* the failure raised for an upstream 400 or 403
IsCredentialError(e) ==
    /\ IsHTTPError(e)
    /\ e.msg = "API Key likely invalid or not configured correctly. Status {status}. Details: {details}"

\* the failure raised for any other upstream status
IsUpstreamRequestFailed(e) ==
    /\ IsHTTPError(e)
    /\ e.msg = "API call failed with status {status}"

\* the message of e embeds upstream body b
MessageContainsBody(e, b) == b = "" \/ e.details.parsed = b

----------------------------------------------------------------------------
(* Claims                                                                  *)

\* C1: one call of fetch_gemini_api performs at least 1 and at most 5 POST
\* attempts, whatever the upstream outcomes are.
C1_AttemptsBetweenOneAndFive ==
    \A r \in ReqIds :
        /\ NumPosts(r) <= 5
        /\ fetched[r].how # "none" => NumPosts(r) >= 1

C1_Witness ==
    \E r \in ReqIds : fetched[r].how # "none" /\ NumPosts(r) = 5

\* C2: 429 on the first four attempts and a 2xx with a JSON body on the
\* fifth: the call returns the parsed body of the fifth response after
\* exactly 5 attempts and 4 waits of 1, 2, 4 and 8 seconds, in this order.
C2_FourRateLimitsThenSuccess ==
    \A r \in ReqIds :
        (/\ StatusesOf(r) = <<429, 429, 429, 429, 200>>
         /\ IsJson(response[r].body))
        => /\ fetched[r].how = "return"
           /\ fetched[r].body = response[r].body
           /\ NumPosts(r) = 5
           /\ SecsOf(r) = <<1, 2, 4, 8>>

C2_Witness ==
    \E r \in ReqIds :
        /\ StatusesOf(r) = <<429, 429, 429, 429, 200>>
        /\ fetched[r].how = "return"
        /\ resp[r].code = 200

\* C3 (as claimed): 429 on every attempt: the call makes exactly 5 attempts
\* and then fails with the rate-limit failure.
C3_AlwaysRateLimited ==
    \A r \in ReqIds :
        (NumPosts(r) >= 1 /\ \A k \in 1..NumPosts(r) : StatusesOf(r)[k] = 429)
        => \/ pc[r] = "fetch"
           \/ /\ NumPosts(r) = 5
              /\ fetched[r].how = "raise"
              /\ IsRateLimitFailure(fetched[r].exc)

\* C4: a 400 or 403 response, on the first attempt or on a later one, ends
\* the call with a failure: no POST and no sleep follows it.
C4_CredentialStatusIsFinal ==
    \A r \in ReqIds : \A k \in 1..Len(trace[r]) :
        (IsPost(trace[r][k]) /\ trace[r][k].status \in {400, 403})
        => /\ k = Len(trace[r])
           /\ pc[r] = "done"
           /\ fetched[r].how = "raise"

C4_Witness ==
    \E r \in ReqIds :
        /\ NumPosts(r) = 3
        /\ NumSleeps(r) = 2
        /\ LastEvent(r).status = 403
        /\ fetched[r].how = "raise"

\* C5 (as claimed): for every upstream 400 or 403, whatever its body, the
\* call raises the credential error, whose message contains the upstream
\* body, and the route answers 500 with that message in the error field.
C5_CredentialErrorCarriesBody ==
    \A r \in ReqIds :
        (/\ pc[r] = "done"
         /\ trace[r] # <<>>
         /\ LastEvent(r).status \in {400, 403})
        => /\ fetched[r].how = "raise"
           /\ IsCredentialError(fetched[r].exc)
           /\ MessageContainsBody(fetched[r].exc, response[r].body)
           /\ resp[r].code = 500
           /\ resp[r].key = "error"
           /\ resp[r].exc = fetched[r].exc

\* C6 (as claimed): a response whose status is not 2xx and is not 429, 400
\* or 403 is not retried: it is the last event of the call, which fails as
\* "upstream request failed" with the status code in the message.
C6_OtherStatusFailsWithoutRetry ==
    \A r \in ReqIds : \A k \in 1..Len(trace[r]) :
        (/\ IsPost(trace[r][k])
         /\ trace[r][k].kind = "http"
         /\ ~Is2xx(trace[r][k].status)
         /\ trace[r][k].status \notin {429, 400, 403})
        => /\ k = Len(trace[r])
           /\ fetched[r].how = "raise"
           /\ IsUpstreamRequestFailed(fetched[r].exc)
           /\ fetched[r].exc.status = trace[r][k].status

\* C7 (as claimed): a 2xx response ends the call at once, also when its
\* body is not JSON: no POST and no sleep follows it, and a JSON body is
\* returned parsed.
C7_SuccessIsFinal ==
    \A r \in ReqIds : \A k \in 1..Len(trace[r]) :
        (/\ IsPost(trace[r][k])
         /\ trace[r][k].kind = "http"
         /\ Is2xx(trace[r][k].status))
        => /\ k = Len(trace[r])
           /\ pc[r] = "done"
           /\ IsJson(response[r].body)
                => fetched[r].how = "return" /\ fetched[r].body = response[r].body

\* C8: a transport failure on attempt k < 5 is followed by a sleep and then
\* by attempt k+1; on attempt 5 it is raised with nothing after it; five
\* transport failures in a row make 5 attempts and 4 sleeps, and the route
\* answers 500 with an error body.
C8_TransportFailureRetried ==
    \A r \in ReqIds :
        /\ \A k \in 1..Len(trace[r]) :
              IsTransport(trace[r][k]) =>
                 IF PostsUpTo(r, k) < 5
                 THEN /\ k + 1 <= Len(trace[r])
                      /\ IsSleep(trace[r][k + 1])
                      /\ IF k + 1 = Len(trace[r])
                         THEN pc[r] = "fetch" /\ i[r] = PostsUpTo(r, k)
                         ELSE IsPost(trace[r][k + 2])
                 ELSE /\ k = Len(trace[r])
                      /\ pc[r] = "done"
                      /\ fetched[r].how = "raise"
                      /\ fetched[r].exc.type = trace[r][k].kind
                      /\ resp[r].code = 500
                      /\ resp[r].key = "error"
                      /\ resp[r].exc = fetched[r].exc
        /\ (NumPosts(r) = 5 /\ \A k \in 1..5 : IsTransport(PostsOf(r)[k]))
              => NumSleeps(r) = 4 /\ pc[r] = "done"

C8_Witness ==
    \E r \in ReqIds :
        /\ NumPosts(r) = 5
        /\ \A k \in 1..5 : IsTransport(PostsOf(r)[k])
        /\ NumSleeps(r) = 4
        /\ resp[r].code = 500

\* C9: the sleep taken after attempt number n (counted from 0) and before
\* attempt n+1 lasts 2^n seconds, n in 0..3, whatever mix of 429 responses
\* and transport failures the failed attempts were; every attempt but the
\* first comes right after such a sleep.
C9_DelayDoublesPerFailedAttempt ==
    \A r \in ReqIds : \A k \in 1..Len(trace[r]) :
        /\ IsSleep(trace[r][k]) =>
              /\ PostsUpTo(r, k) \in 1..4
              /\ trace[r][k].secs = 2 ^ (PostsUpTo(r, k) - 1)
        /\ (IsPost(trace[r][k]) /\ k > 1) => IsSleep(trace[r][k - 1])

C9_Witness ==
    \E r \in ReqIds :
        /\ SecsOf(r) = <<1, 2, 4, 8>>
        /\ KindsOf(r)[1] = "Timeout"
        /\ StatusesOf(r)[2] = 429
        /\ KindsOf(r)[3] = "ConnectionError"
        /\ StatusesOf(r)[4] = 429

\* the inbound bodies that carry a non-empty input field for the route
BodiesWithInput(ep) ==
    IF ep = "/summarize" THEN {"{\"summaryPrompt\":\"foo\"}"}
    ELSE {"{\"textToSpeak\":\"foo\"}"}

\* C10 (as claimed): a request whose input field is missing or empty, also
\* one whose body is absent, null or not an object, is answered 400 with
\* the error that names the missing field, and no POST is attempted.
C10_MissingInputIs400 ==
    \A r \in ReqIds :
        (pc[r] # "idle" /\ inbody[r] \notin BodiesWithInput(endpoint[r]))
        => /\ pc[r] = "done"
           /\ resp[r].code = 400
           /\ resp[r].msg = MissingMsg(endpoint[r])
           /\ trace[r] = <<>>

\* C11: every request ends with one response, the 200 success shape of
\* its route or a 4xx/5xx {"error": string}; no failure leaves a route
\* without a response, and a response once given is never replaced.
C11_OneShapedResponse ==
    /\ [](\A r \in ReqIds :
            IF pc[r] = "done"
            THEN \/ /\ resp[r].code = 200
                    /\ resp[r].key = IF endpoint[r] = "/summarize" THEN "summary"
                                     ELSE "audioData"
                 \/ /\ resp[r].code \in 400..599
                    /\ resp[r].key = "error"
                    /\ resp[r].msg # ""
            ELSE resp[r] = NoResp)
    /\ [][\A r \in ReqIds : resp[r] # NoResp => resp'[r] = resp[r]]_vars

C11_Witness ==
    \E r \in ReqIds :
        /\ pc[r] = "done"
        /\ fetched[r].how = "return"
        /\ resp[r].code = 500
        /\ resp[r].exc.type = "IndexError"

\* the upstream bodies without a usable text in the first candidate's first
\* part: candidates missing, candidates empty, parts empty, text missing,
\* text empty
BodiesWithoutText ==
    { "{}",
      "{\"candidates\":[]}",
      "{\"candidates\":[{\"content\":{\"parts\":[]}}]}",
      "{\"candidates\":[{\"content\":{\"parts\":[{}]}}]}",
      "{\"candidates\":[{\"content\":{\"parts\":[{\"text\":\"\"}]}}]}" }

\* C12 (as claimed): a 2xx answer to /summarize without a usable text is
\* answered 500 with the 'generation failed' error and no other failure.
C12_NoTextIsGenerationFailed ==
    \A r \in ReqIds :
        (/\ endpoint[r] = "/summarize"
         /\ fetched[r].how = "return"
         /\ Is2xx(response[r].status)
         /\ response[r].body \in BodiesWithoutText)
        => resp[r] = ErrorResp(500, "Failed to generate summary from the model.", NoExc)

\* the upstream body with both inlineData.data and an audio/L16 MIME type
BodyWithL16Audio ==
    "{\"candidates\":[{\"content\":{\"parts\":[{\"inlineData\":{\"data\":\"QUJD\",\"mimeType\":\"audio/L16;rate=24000\"}}]}}]}"

\* C13 (as claimed): after a 2xx answer to /read-aloud the route answers
\* 200 with the upstream data and MIME type unchanged if and only if both
\* are present and the MIME type starts with audio/L16; in every other case
\* it answers 500 with the 'invalid audio' error.
C13_AudioIffL16 ==
    \A r \in ReqIds :
        (/\ endpoint[r] = "/read-aloud"
         /\ fetched[r].how = "return"
         /\ Is2xx(response[r].status))
        => IF response[r].body = BodyWithL16Audio
           THEN /\ resp[r].code = 200
                /\ resp[r].audioData = Str(QUJD)
                /\ resp[r].mimeType = Str(MIME_L16)
           ELSE resp[r] = ErrorResp(500, "Invalid audio data received from API or model failed to generate audio.", NoExc)

\* C14: /summarize with a non-empty summaryPrompt and a 2xx answer whose
\* first candidate's first part has the non-empty text t answers 200 with
\* {"summary": t}, t unchanged.
C14_SummaryVerbatim ==
    \A r \in ReqIds :
        (/\ endpoint[r] = "/summarize"
         /\ inbody[r] = "{\"summaryPrompt\":\"foo\"}"
         /\ pc[r] = "done"
         /\ LastEvent(r).kind = "http"
         /\ Is2xx(LastEvent(r).status)
         /\ response[r].body = "{\"candidates\":[{\"content\":{\"parts\":[{\"text\":\"foo\"}]}}]}")
        => /\ resp[r].code = 200
           /\ resp[r].key = "summary"
           /\ resp[r].summary = Str(FOO)

C14_Witness ==
    \E r \in ReqIds :
        /\ endpoint[r] = "/summarize"
        /\ pc[r] = "done"
        /\ NumPosts(r) = 2
        /\ LastEvent(r).status = 200
        /\ response[r].body = "{\"candidates\":[{\"content\":{\"parts\":[{\"text\":\"foo\"}]}}]}"
        /\ resp[r].summary = Str(FOO)

\* the inbound bodies that are an object whose input field is missing or
\* empty
BodiesMissingInput(ep) ==
    IF ep = "/summarize"
    THEN {"{}", "{\"summaryPrompt\":\"\"}", "{\"textToSpeak\":\"\"}", "{\"textToSpeak\":\"foo\"}"}
    ELSE {"{}", "{\"textToSpeak\":\"\"}", "{\"summaryPrompt\":\"\"}", "{\"summaryPrompt\":\"foo\"}"}

\* the upstream body a route can use
UsableBody(ep) ==
    IF ep = "/summarize"
    THEN "{\"candidates\":[{\"content\":{\"parts\":[{\"text\":\"foo\"}]}}]}"
    ELSE BodyWithL16Audio

\* the call of request r ended in an upstream-caused failure: a failure was
\* raised, the last status is not 2xx, or the answer has no usable content
UpstreamFailed(r) ==
    /\ pc[r] = "done"
    /\ trace[r] # <<>>
    /\ \/ fetched[r].how = "raise"
       \/ ~Is2xx(LastEvent(r).status)
       \/ response[r].body # UsableBody(endpoint[r])

\* C15 (as claimed): status 400 is answered only for missing input, and
\* every upstream-caused failure is answered 500, never 400 and never 200.
C15_UpstreamFailuresAre500 ==
    \A r \in ReqIds :
        /\ resp[r].code = 400
              => trace[r] = <<>> /\ inbody[r] \in BodiesMissingInput(endpoint[r])
        /\ UpstreamFailed(r) => resp[r].code = 500

\* everything the model keeps for request r
StateOf(r) ==
    <<pc[r], endpoint[r], inbody[r], payload[r], url[r], i[r], delay[r],
      response[r], trace[r], fetched[r], resp[r]>>

\* the upstream outcome of the last POST of request r
OwnLastOutcome(r) ==
    [kind |-> LastEvent(r).kind,
     status |-> LastEvent(r).status,
     body |-> IF LastEvent(r).kind = "http" THEN response[r].body ELSE ""]

\* C16: with two requests handled in any interleaving, each request's
\* retry loop is its own: its loop variable and delay follow from its own
\* sleeps (1, 2, 4, 8 from the start), its outcome follows from its own
\* route, attempt count and last upstream answer, and a step of one request
\* changes nothing of the other request nor any shared state.
C16_RequestsIndependent ==
    /\ [](\A r \in ReqIds :
            /\ i[r] = NumSleeps(r)
            /\ delay[r] = 2 ^ NumSleeps(r)
            /\ \A k \in 1..NumSleeps(r) : SecsOf(r)[k] = 2 ^ (k - 1)
            /\ (pc[r] = "done" /\ trace[r] # <<>>) =>
                  /\ fetched[r] = FetchEnd(NumPosts(r) - 1,
                                      Iteration(NumPosts(r) - 1, 2 ^ (NumPosts(r) - 1),
                                                OwnLastOutcome(r)))
                  /\ resp[r] = Finish(endpoint[r], fetched[r]))
    /\ [][/\ \A r \in ReqIds :
                (pc'[r] = pc[r] /\ trace'[r] = trace[r]) => StateOf(r)' = StateOf(r)
          /\ requests_version' = requests_version
          /\ clients' = clients]_vars

C16_Witness ==
    /\ pc[1] = "fetch"
    /\ NumSleeps(1) = 3
    /\ pc[2] = "fetch"
    /\ NumSleeps(2) = 1
    /\ endpoint[1] # endpoint[2]

\* C17 (as claimed): a call that ended either returned the parsed body of
\* a 2xx response or raised a failure; it never ended any other way.
C17_ReturnsBodyOf2xxOrRaises ==
    \A r \in ReqIds :
        (pc[r] = "done" /\ trace[r] # <<>>)
        => \/ /\ fetched[r].how = "return"
              /\ LastEvent(r).kind = "http"
              /\ Is2xx(LastEvent(r).status)
              /\ fetched[r].body = response[r].body
           \/ /\ fetched[r].how = "raise"
              /\ fetched[r].exc # NoExc

RECURSIVE SumSeq(_)
SumSeq(q) == IF q = <<>> THEN 0 ELSE q[1] + SumSeq(Tail(q))

\* the seconds request r has slept in all
TotalDelay(r) == SumSeq(SecsOf(r))

\* C18: once a call has ended it has slept one time less than it has
\* posted; every sleep comes right after a POST and is followed by the
\* next POST, never first and never last; a call sleeps at most
\* 1 + 2 + 4 + 8 = 15 seconds in all.
C18_SleepsBetweenAttempts ==
    \A r \in ReqIds :
        /\ fetched[r].how # "none" => NumSleeps(r) = NumPosts(r) - 1
        /\ \A k \in 1..Len(trace[r]) :
              IsSleep(trace[r][k]) =>
                 /\ k > 1
                 /\ IsPost(trace[r][k - 1])
                 /\ IF k = Len(trace[r]) THEN pc[r] = "fetch"
                    ELSE IsPost(trace[r][k + 1])
        /\ TotalDelay(r) <= 15

C18_Witness ==
    \E r \in ReqIds :
        /\ fetched[r].how # "none"
        /\ NumPosts(r) = 5
        /\ NumSleeps(r) = 4
        /\ TotalDelay(r) = 15

\* C19: every POST of a request carries the payload built from its input
\* and goes to the URL of its route: the summarization URL for /summarize,
\* the speech URL for /read-aloud; a retry leaves URL and payload as they
\* are.
C19_SamePayloadSameUrl ==
    /\ [](\A r \in ReqIds : \A k \in 1..Len(trace[r]) :
            IsPost(trace[r][k]) =>
               /\ trace[r][k].url = IF endpoint[r] = "/summarize"
                                    THEN GEMINI_SUMMARIZE_URL ELSE GEMINI_TTS_URL
               /\ trace[r][k].payload = PostsOf(r)[1].payload
               /\ trace[r][k].payload.text = Str(FOO)
               /\ trace[r][k].payload.prefix =
                     IF endpoint[r] = "/summarize" THEN ""
                     ELSE "Say in a clear, informative voice: "
               /\ trace[r][k].payload.system = (endpoint[r] = "/summarize")
               /\ trace[r][k].payload.audio = (endpoint[r] = "/read-aloud"))
    /\ [][\A r \in ReqIds :
            pc[r] = "fetch" =>
               /\ url'[r] = url[r]
               /\ payload'[r] = payload[r]
               /\ endpoint'[r] = endpoint[r]
               /\ inbody'[r] = inbody[r]]_vars

C19_Witness ==
    \E r \in ReqIds :
        /\ endpoint[r] = "/read-aloud"
        /\ NumPosts(r) = 5
        /\ \A k \in 1..5 : PostsOf(r)[k].url = GEMINI_TTS_URL

====
